---- MODULE Spec2Model ----
(***************************************************************************)
(* Model of the UVM assembler (src/assembler.py) and interpreter           *)
(* (src/interpreter.py), with the demo driver of src/demo.py.              *)
(*                                                                         *)
(* Spec    : the interpreter as a state machine (load_program,             *)
(*           execute_step, run) fed with programs assembled by the         *)
(*           assembler's operators.                                        *)
(* SpecAsm : the assembler pipeline (parse_program, assemble_to_bytes,     *)
(*           disassemble_command) applied to bounded inputs.               *)
(***************************************************************************)
EXTENDS Integers, Sequences, FiniteSets, TLC

VARIABLES
    memory,        \* UVMInterpreter.memory: the list of cells (cell i is memory[i+1])
    accumulator,   \* UVMInterpreter.accumulator
    pc,            \* UVMInterpreter.pc
    halted,        \* UVMInterpreter.halted
    result,        \* outcome of the last interpreter call
    program,       \* binary_data of the last successful load_program
    steps,         \* execute_step calls that returned True since the last load
    decoded_zero,  \* decode_command has been called on the word 0 since the last load
    run_state,     \* position of the caller inside run(): idle, running, returned, raised
    was_halted,    \* the last call was an execute_step made on a halted machine
    json_data,     \* assembler: the commands handed to parse_program
    internal_repr, \* assembler: what parse_program returned (or the error it raised)
    binary_data,   \* assembler: what assemble_to_bytes returned
    disassembled   \* assembler: what disassemble_command returned

machine == <<memory, accumulator, pc, halted>>
asm == <<json_data, internal_repr, binary_data, disassembled>>
vars == <<memory, accumulator, pc, halted, result, program, steps, decoded_zero,
          run_state, was_halted, json_data, internal_repr, binary_data, disassembled>>

(***************************************************************************)
(* Bounds of the model.                                                    *)
(***************************************************************************)
MaxMem == 3        \* machines are built with memory_size in 1..MaxMem (and the demo's size)
MaxProgLen == 3    \* programs handed to the interpreter have at most this many commands
MaxAsmLen == 2     \* programs handed to the assembler pipeline have at most this many commands

(***************************************************************************)
(* Program constants.                                                      *)
(***************************************************************************)
LOAD_CONST == 58
LOAD_MEM == 19
STORE_MEM == 24
ABS == 7
DemoMemorySize == 1024
RecordSize == 5

\* Mutant of OPCODES: an operation is given the code 0.
OPCODES_with_zero == [LOAD_CONST |-> LOAD_CONST, LOAD_MEM |-> LOAD_MEM,
                      STORE_MEM |-> STORE_MEM, ABS |-> 0]

\* UVMAssembler.OPCODES
OPCODES == [LOAD_CONST |-> LOAD_CONST, LOAD_MEM |-> LOAD_MEM,
            STORE_MEM |-> STORE_MEM, ABS |-> ABS]

(***************************************************************************)
(* Integer bit operations of Python on the values the code applies them    *)
(* to (shift counts and masks are the literals of the source).             *)
(***************************************************************************)
Pow2(k) == 2 ^ k
\* x >> k  (floor division, also for negative x)
Shr(x, k) == x \div Pow2(k)
\* x << k
Shl(x, k) == x * Pow2(k)
\* x & (2^k - 1): the low k bits (two's complement for negative x)
LowBits(x, k) == x % Pow2(k)
\* x & 2^k # 0: bit k of x
BitSet(x, k) == (x \div Pow2(k)) % 2 = 1

\* Mutant of struct_pack: rest is packed big-endian ('>BI').
struct_pack_big_endian(byte0, rest) ==
    << byte0,
       (rest \div 16777216) % 256,
       (rest \div 65536) % 256,
       (rest \div 256) % 256,
       rest % 256 >>

\* struct.pack('<BI', byte0, rest): one byte, then rest as 4 little-endian bytes
struct_pack(byte0, rest) ==
    << byte0,
       rest % 256,
       (rest \div 256) % 256,
       (rest \div 65536) % 256,
       (rest \div 16777216) % 256 >>

\* struct.unpack('<BI', b): (byte0, rest)
struct_unpack(b) ==
    << b[1], b[2] + 256 * b[3] + 65536 * b[4] + 16777216 * b[5] >>

\* int.from_bytes(b, 'little') for a 5-byte slice.  The model checker's
\* integers are 32 bits wide, so 2^32 is written 65536 * 65536 and the words
\* of the model stay below 2^31 (a larger one stops the check with an
\* overflow error, it never wraps).
from_bytes(b) ==
    b[1] + 256 * b[2] + 65536 * b[3] + 16777216 * b[4] + b[5] * 65536 * 65536

\* command.to_bytes(5, 'little') for 0 <= command < 2^40
to_bytes(command) ==
    << command % 256,
       (command \div 256) % 256,
       (command \div 65536) % 256,
       (command \div 16777216) % 256,
       ((command \div 65536) \div 65536) % 256 >>

\* command.to_bytes(5, 'little') raises OverflowError outside 0 .. 2^40 - 1
to_bytes_raises(command) ==
    command < 0 \/ ((command \div 65536) \div 65536) \div 256 > 0

(***************************************************************************)
(* src/assembler.py                                                        *)
(***************************************************************************)
\* A JSON integer may exceed the model checker's 32-bit integers (the
\* validation bounds include 0x80000000), so the operand of a command that
\* is not validated yet is kept as hi * 65536 + lo with lo in 0..65535.
Wide(n) == [hi |-> n \div 65536, lo |-> n % 65536]
\* x < n and x > n for a wide x and an integer n
WideLess(x, n) == x.hi < Wide(n).hi \/ (x.hi = Wide(n).hi /\ x.lo < Wide(n).lo)
WideGreater(x, n) == x.hi > Wide(n).hi \/ (x.hi = Wide(n).hi /\ x.lo > Wide(n).lo)
\* the integer a wide x stands for, once validation has bounded it
Narrow(x) == x.hi * 65536 + x.lo

\* One command of the JSON list: is_int models isinstance(operand, int).
\* (Lists that json.loads rejects or commands without the two keys never
\* reach the validation and are not modelled.)
Cmd(op, n) == [opcode |-> op, operand |-> Wide(n), is_int |-> TRUE]

\* Mutant of parse_error: LOAD_CONST is held to the two's-complement 17-bit
\* range -65536..65535.
parse_error_signed17(cmd) ==
    IF cmd.opcode \notin DOMAIN OPCODES THEN "unknown_operation"
    ELSE IF cmd.opcode = "LOAD_CONST" THEN
        IF ~cmd.is_int THEN "operand_not_int"
        ELSE IF WideLess(cmd.operand, -65536) \/ WideGreater(cmd.operand, 65535)
             THEN "const_out_of_range"
        ELSE ""
    ELSE
        IF ~cmd.is_int \/ WideLess(cmd.operand, 0) THEN "address_not_nonnegative_int"
        ELSE IF WideGreater(cmd.operand, 2147483647) THEN "address_too_big"
        ELSE ""

\* The error parse_program raises on one command, "" when it accepts it.
parse_error(cmd) ==
    IF cmd.opcode \notin DOMAIN OPCODES THEN "unknown_operation"
    ELSE IF cmd.opcode = "LOAD_CONST" THEN
        IF ~cmd.is_int THEN "operand_not_int"
        ELSE IF WideLess(cmd.operand, -65536) \/ WideGreater(cmd.operand, 131071)
             THEN "const_out_of_range"
        ELSE ""
    ELSE
        IF ~cmd.is_int \/ WideLess(cmd.operand, 0) THEN "address_not_nonnegative_int"
        ELSE IF WideGreater(cmd.operand, 2147483647) THEN "address_too_big"
        ELSE ""

\* The internal representation parse_program appends for an accepted command.
parse_command(cmd) ==
    [opcode |-> cmd.opcode,
     opcode_num |-> OPCODES[cmd.opcode],
     operand |-> IF cmd.opcode = "LOAD_CONST" /\ WideLess(cmd.operand, 0)
                 THEN Pow2(17) + Narrow(cmd.operand)
                 ELSE Narrow(cmd.operand)]

\* parse_program: the list of internal representations, or the error of the
\* first rejected command (no partial result).
parse_program(commands) ==
    LET bad == {i \in 1..Len(commands) : parse_error(commands[i]) # ""}
    IN  IF bad = {}
        THEN [ok |-> TRUE, error |-> "",
              repr |-> [i \in 1..Len(commands) |-> parse_command(commands[i])]]
        ELSE LET first == CHOOSE i \in bad : \A j \in bad : i <= j
             IN  [ok |-> FALSE, error |-> parse_error(commands[first]), repr |-> <<>>]

\* The 5 bytes assemble_to_bytes emits for one command.
assemble_command(cmd) ==
    LET operand == IF cmd.opcode = "LOAD_CONST" /\ cmd.operand > 131071
                   THEN LowBits(cmd.operand, 17)
                   ELSE cmd.operand
        byte0 == cmd.opcode_num + Shl(LowBits(operand, 2), 6)
        rest == Shr(operand, 2)
    IN  struct_pack(byte0, rest)

\* Mutant of assemble_to_bytes: each record is put in front of the bytes
\* assembled so far, which reverses the program.
RECURSIVE assemble_to_bytes_prepending(_)
assemble_to_bytes_prepending(repr) ==
    IF repr = <<>> THEN <<>>
    ELSE assemble_to_bytes_prepending(Tail(repr)) \o assemble_command(Head(repr))

\* assemble_to_bytes: the records of the commands, concatenated in order.
RECURSIVE assemble_to_bytes(_)
assemble_to_bytes(repr) ==
    IF repr = <<>> THEN <<>>
    ELSE assemble_command(Head(repr)) \o assemble_to_bytes(Tail(repr))

\* The mnemonic of a numeric code, UNKNOWN when the table has none.
opcode_name(num) ==
    IF \E name \in DOMAIN OPCODES : OPCODES[name] = num
    THEN CHOOSE name \in DOMAIN OPCODES : OPCODES[name] = num
    ELSE "UNKNOWN"

\* Mutant of disassemble_command: the operand of LOAD_CONST is not
\* sign-extended.
disassemble_command_unsigned(command_bytes) ==
    LET u == struct_unpack(command_bytes)
        byte0 == u[1]
        rest == u[2]
        opcode_num == LowBits(byte0, 6)
        operand_low == LowBits(Shr(byte0, 6), 2)
        operand == Shl(rest, 2) + operand_low
    IN  [opcode |-> opcode_name(opcode_num),
         opcode_num |-> opcode_num,
         operand |-> operand]

\* disassemble_command on a 5-byte record.
disassemble_command(command_bytes) ==
    LET u == struct_unpack(command_bytes)
        byte0 == u[1]
        rest == u[2]
        opcode_num == LowBits(byte0, 6)
        operand_low == LowBits(Shr(byte0, 6), 2)
        operand == Shl(rest, 2) + operand_low
    IN  [opcode |-> opcode_name(opcode_num),
         opcode_num |-> opcode_num,
         operand |-> IF opcode_num = 58 /\ BitSet(operand, 16)
                     THEN operand - Pow2(17)
                     ELSE operand]

(***************************************************************************)
(* src/interpreter.py                                                      *)
(***************************************************************************)
\* len(self.memory) and self.memory[i] of the Python list
MemLen(mem) == Len(mem)
Cell(mem, i) == mem[i + 1]
\* self.memory[i] = v
SetCell(mem, i, v) == [mem EXCEPT ![i + 1] = v]

\* UVMInterpreter.__init__(memory_size)
new_machine(memory_size) ==
    [memory |-> [i \in 1..memory_size |-> 0], accumulator |-> 0, pc |-> 0,
     halted |-> FALSE]

\* Mutant of load_rejects: the length check is missing.
load_rejects_never(data) == FALSE

\* load_program rejects a blob whose length is not a multiple of 5.
load_rejects(data) == Len(data) % RecordSize # 0

\* Mutant of loaded_memory: the records past the last cell are appended, so
\* the memory grows to hold the whole program.
loaded_memory_growing(mem, data) ==
    LET K == Len(data) \div RecordSize
        N == IF K > MemLen(mem) THEN K ELSE MemLen(mem)
    IN  [c \in 1..N |->
            IF c - 1 < K
            THEN from_bytes(SubSeq(data, RecordSize * (c - 1) + 1, RecordSize * c))
            ELSE 0]

\* The memory load_program builds: all cells zero, then record i//5 of the
\* blob in cell i//5 while i//5 < len(self.memory).
loaded_memory(mem, data) ==
    [c \in 1..MemLen(mem) |->
        IF c - 1 < Len(data) \div RecordSize
        THEN from_bytes(SubSeq(data, RecordSize * (c - 1) + 1, RecordSize * c))
        ELSE 0]

\* Mutant of decode_command: the two low operand bits of byte 0 are left out.
decode_command_without_low_bits(command) ==
    LET u == struct_unpack(to_bytes(command))
    IN  [opcode |-> LowBits(u[1], 6), operand |-> Shl(u[2], 2)]

\* decode_command on a word that to_bytes accepts: (opcode, operand)
decode_command(command) ==
    LET u == struct_unpack(to_bytes(command))
        byte0 == u[1]
        rest == u[2]
        opcode == LowBits(byte0, 6)
        operand_low == LowBits(Shr(byte0, 6), 2)
    IN  [opcode |-> opcode, operand |-> Shl(rest, 2) + operand_low]

\* abs(x)
Abs(x) == IF x < 0 THEN -x ELSE x

\* The early return of execute_step: a halted machine or a program counter
\* past the memory.
step_refused(mem, p, h) == h \/ p >= MemLen(mem)


\* Mutant of is_empty_command: the empty-command test is missing.
is_empty_command_never(command) == FALSE

\* The empty-command test of execute_step.
is_empty_command(command) == command = 0


\* Mutant of next_pc: the program counter advances by the record size in
\* bytes instead of by one cell.
next_pc_in_bytes(p) == p + RecordSize

\* Mutant of next_pc: a successful step leaves the program counter where it
\* is.
next_pc_stuck(p) == p

\* self.pc += 1
next_pc(p) == p + 1

\* The end of the try block: the command had its effect (memory m,
\* accumulator a), the program counter advances and the call returns True.
step_succeeded(m, a, p, h) ==
    [memory |-> m, accumulator |-> a, pc |-> next_pc(p), halted |-> h,
     ret |-> "stepped"]


\* Mutant of step_failed: the program counter advances on the failing path too.
step_failed_advancing(m, a, p, h) ==
    [memory |-> m, accumulator |-> a, pc |-> p + 1, halted |-> TRUE,
     ret |-> "not_stepped"]

\* The except clause: whatever the command did before it raised stays
\* (memory m, accumulator a), halted is set and the call returns False.
step_failed(m, a, p, h) ==
    [memory |-> m, accumulator |-> a, pc |-> p, halted |-> TRUE,
     ret |-> "not_stepped"]

\* Mutant of dispatch: ABS checks the operand before it takes the absolute
\* value, as LOAD_MEM and STORE_MEM do.
dispatch_abs_checks_first(mem, acc, p, h, opcode, operand) ==
    IF opcode = 58 THEN
        step_succeeded(mem,
                       IF BitSet(operand, 16) THEN operand - Pow2(17) ELSE operand,
                       p, h)
    ELSE IF opcode = 19 THEN
        IF operand >= MemLen(mem) THEN step_failed(mem, acc, p, h)
        ELSE step_succeeded(mem, Cell(mem, operand), p, h)
    ELSE IF opcode = 24 THEN
        IF operand >= MemLen(mem) THEN step_failed(mem, acc, p, h)
        ELSE step_succeeded(SetCell(mem, operand, acc), acc, p, h)
    ELSE IF opcode = 7 THEN
        IF operand >= MemLen(mem) THEN step_failed(mem, acc, p, h)
        ELSE step_succeeded(SetCell(mem, operand, Abs(acc)), Abs(acc), p, h)
    ELSE step_failed(mem, acc, p, h)

\* The try block of execute_step on a decoded command.
dispatch(mem, acc, p, h, opcode, operand) ==
    IF opcode = 58 THEN
        step_succeeded(mem,
                       IF BitSet(operand, 16) THEN operand - Pow2(17) ELSE operand,
                       p, h)
    ELSE IF opcode = 19 THEN
        IF operand >= MemLen(mem) THEN step_failed(mem, acc, p, h)
        ELSE step_succeeded(mem, Cell(mem, operand), p, h)
    ELSE IF opcode = 24 THEN
        IF operand >= MemLen(mem) THEN step_failed(mem, acc, p, h)
        ELSE step_succeeded(SetCell(mem, operand, acc), acc, p, h)
    ELSE IF opcode = 7 THEN
        IF operand >= MemLen(mem) THEN step_failed(mem, Abs(acc), p, h)
        ELSE step_succeeded(SetCell(mem, operand, Abs(acc)), Abs(acc), p, h)
    ELSE step_failed(mem, acc, p, h)

\* Mutant of step: a call on a halted machine raises instead of returning
\* False.
step_raising_when_halted(mem, acc, p, h) ==
    LET same(r, z) == [memory |-> mem, accumulator |-> acc, pc |-> p, halted |-> h,
                       ret |-> r, zero |-> z]
    IN  IF h THEN same("raised", FALSE)
        ELSE IF p >= MemLen(mem) THEN same("not_stepped", FALSE)
        ELSE LET command == Cell(mem, p)
             IN  IF is_empty_command(command) THEN same("not_stepped", FALSE)
                 ELSE IF to_bytes_raises(command) THEN same("raised", FALSE)
                 ELSE LET d == decode_command(command)
                          o == dispatch(mem, acc, p, h, d.opcode, d.operand)
                      IN  [memory |-> o.memory, accumulator |-> o.accumulator,
                           pc |-> o.pc, halted |-> o.halted, ret |-> o.ret,
                           zero |-> (command = 0)]

\* execute_step as a function of the machine state: the new state, what the
\* call returned (ret) and whether it called decode_command on the word 0.
step(mem, acc, p, h) ==
    LET same(r, z) == [memory |-> mem, accumulator |-> acc, pc |-> p, halted |-> h,
                       ret |-> r, zero |-> z]
    IN  IF step_refused(mem, p, h) THEN same("not_stepped", FALSE)
        ELSE LET command == Cell(mem, p)
             IN  IF is_empty_command(command) THEN same("not_stepped", FALSE)
                 ELSE IF to_bytes_raises(command) THEN same("raised", FALSE)
                 ELSE LET d == decode_command(command)
                          o == dispatch(mem, acc, p, h, d.opcode, d.operand)
                      IN  [memory |-> o.memory, accumulator |-> o.accumulator,
                           pc |-> o.pc, halted |-> o.halted, ret |-> o.ret,
                           zero |-> (command = 0)]

(***************************************************************************)
(* Inputs.                                                                 *)
(***************************************************************************)
\* The sequences over S of length at most n
SeqsUpTo(S, n) == UNION {[1..k -> S] : k \in 0..n}

\* An address outside every machine of at most MaxMem cells
OutOfBounds == MaxMem

\* The commands the interpreter's programs are made of: a negative constant,
\* loads of a program cell and out of bounds, stores into a later cell
\* (inside or past the program) and out of bounds.
PoolCommands ==
    { Cmd("LOAD_CONST", -3),
      Cmd("LOAD_MEM", 0), Cmd("LOAD_MEM", OutOfBounds),
      Cmd("STORE_MEM", 2), Cmd("STORE_MEM", OutOfBounds),
      Cmd("ABS", 2), Cmd("ABS", OutOfBounds) }

\* test_program of demo_basic
DemoBasic ==
    << Cmd("LOAD_CONST", 42), Cmd("STORE_MEM", 100), Cmd("LOAD_CONST", 15),
       Cmd("ABS", 101), Cmd("LOAD_MEM", 100) >>

\* program of demo_negative_numbers
DemoNegative ==
    << Cmd("LOAD_CONST", -25), Cmd("ABS", 30), Cmd("STORE_MEM", 31),
       Cmd("LOAD_CONST", -100), Cmd("ABS", 32) >>

Programs == SeqsUpTo(PoolCommands, MaxProgLen) \cup {DemoBasic, DemoNegative}

\* memory_size of the machines: small ones, and the 1024 cells of the demo
MemorySizes == (1..MaxMem) \cup {DemoMemorySize}

(***************************************************************************)
(* The interpreter as a state machine.  The caller assembles one program   *)
(* (demo.py: parse_program, assemble_to_bytes), builds a machine, and then *)
(* calls load_program, execute_step and run in any order.                  *)
(***************************************************************************)
Init ==
    \E commands \in Programs, memory_size \in MemorySizes :
        /\ json_data = commands
        /\ internal_repr = parse_program(commands)
        /\ binary_data = assemble_to_bytes(parse_program(commands).repr)
        /\ disassembled = <<>>
        /\ memory = new_machine(memory_size).memory
        /\ accumulator = new_machine(memory_size).accumulator
        /\ pc = new_machine(memory_size).pc
        /\ halted = new_machine(memory_size).halted
        /\ result = "init"
        /\ program = <<>>
        /\ steps = 0
        /\ decoded_zero = FALSE
        /\ run_state = "idle"
        /\ was_halted = FALSE


\* Mutant of load_program: the machine is reset before the length is checked.
load_program_reset_first(data) ==
    /\ run_state # "running"
    /\ run_state' = "idle"
    /\ was_halted' = FALSE
    /\ memory' = IF load_rejects(data) THEN [c \in 1..MemLen(memory) |-> 0]
                 ELSE loaded_memory(memory, data)
    /\ accumulator' = 0
    /\ pc' = 0
    /\ halted' = FALSE
    /\ result' = IF load_rejects(data) THEN "load_error" ELSE "loaded"
    /\ program' = IF load_rejects(data) THEN program ELSE data
    /\ steps' = 0
    /\ decoded_zero' = FALSE
    /\ UNCHANGED asm

\* load_program(data): raises and changes nothing when the length is not a
\* multiple of 5, else resets the machine and stores the records.
load_program(data) ==
    /\ run_state # "running"
    /\ run_state' = "idle"
    /\ was_halted' = FALSE
    /\ IF load_rejects(data)
       THEN /\ result' = "load_error"
            /\ UNCHANGED <<memory, accumulator, pc, halted, program, steps, decoded_zero>>
       ELSE /\ memory' = loaded_memory(memory, data)
            /\ accumulator' = 0
            /\ pc' = 0
            /\ halted' = FALSE
            /\ result' = "loaded"
            /\ program' = data
            /\ steps' = 0
            /\ decoded_zero' = FALSE
    /\ UNCHANGED asm

\* The caller loads the assembled program, or the same file cut short by
\* up to 4 bytes.
load_call ==
    \E cut \in 0..(RecordSize - 1) :
        /\ cut <= Len(binary_data)
        /\ load_program(SubSeq(binary_data, 1, Len(binary_data) - cut))

\* The effect of one execute_step call on the machine and on what is observed.
apply_step ==
    LET o == step(memory, accumulator, pc, halted)
    IN  /\ memory' = o.memory
        /\ accumulator' = o.accumulator
        /\ pc' = o.pc
        /\ halted' = o.halted
        /\ result' = o.ret
        /\ steps' = IF o.ret = "stepped" THEN steps + 1 ELSE steps
        /\ decoded_zero' = (decoded_zero \/ o.zero)
        /\ was_halted' = halted
        /\ UNCHANGED program
        /\ UNCHANGED asm

\* A direct execute_step call of the caller (demo.py drives the machine so).
execute_step ==
    /\ run_state # "running"
    /\ run_state' = "idle"
    /\ apply_step

\* The caller enters run().
run_enter ==
    /\ run_state # "running"
    /\ run_state' = "running"
    /\ was_halted' = FALSE
    /\ UNCHANGED <<machine, result, program, steps, decoded_zero>>
    /\ UNCHANGED asm

\* Mutant of run_iteration: run() returns after one execute_step (an if in
\* place of the while).
run_iteration_once ==
    /\ run_state = "running"
    /\ apply_step
    /\ run_state' = IF result' = "raised" THEN "raised" ELSE "returned"

\* One iteration of the loop of run(): it goes on while execute_step returns
\* True, returns when it returns False, and is left by the exception of
\* decode_command.
run_iteration ==
    /\ run_state = "running"
    /\ apply_step
    /\ run_state' = CASE result' = "stepped" -> "running"
                      [] result' = "raised" -> "raised"
                      [] OTHER -> "returned"

Next == load_call \/ execute_step \/ run_enter \/ run_iteration

Spec == Init /\ [][Next]_vars

\* The loop of run() goes on calling execute_step until it leaves: an entered
\* run() always takes its next iteration.
FairSpec == Spec /\ WF_vars(run_iteration)

TypeOK ==
    /\ halted \in BOOLEAN
    /\ pc \in Nat
    /\ steps \in Nat
    /\ result \in {"init", "loaded", "load_error", "stepped", "not_stepped", "raised"}
    /\ run_state \in {"idle", "running", "returned", "raised"}
    /\ was_halted \in BOOLEAN

(***************************************************************************)
(* The assembler pipeline as a state machine: the caller parses a list of  *)
(* commands, assembles what parse_program returned, and disassembles the   *)
(* records (assembler.py: main, run_tests).  result is the stage reached.  *)
(***************************************************************************)
\* A command whose operand is given wide, and one whose operand is no integer
WideCmd(op, w) == [opcode |-> op, operand |-> w, is_int |-> TRUE]
NonIntCmd(op) == [opcode |-> op, operand |-> Wide(0), is_int |-> FALSE]

\* 0x80000000, which no 32-bit integer holds
TwoTo31 == [hi |-> 32768, lo |-> 0]

\* The operands of the commands: the bounds of both ranges and their
\* neighbours, the operands of run_tests, and values between.
AsmOperands ==
    { Wide(n) : n \in { -65537, -65536, -15, -1, 0, 1, 308, 705, 791, 870,
                        65535, 65536, 131071, 131072, 2147483647 } }
    \cup {TwoTo31}

\* The four operations and a name that OPCODES does not have
AsmNames == DOMAIN OPCODES \cup {"NOP"}

AsmCommands ==
    {WideCmd(op, w) : op \in AsmNames, w \in AsmOperands}
    \cup {NonIntCmd(op) : op \in AsmNames}

\* The commands of the longer lists
AsmListCommands ==
    { Cmd("LOAD_CONST", -15), Cmd("LOAD_CONST", 65536), Cmd("LOAD_MEM", 705),
      Cmd("STORE_MEM", 2147483647), Cmd("ABS", 0), Cmd("ABS", -1) }

\* The lists handed to parse_program: every single command, and the lists
\* of up to MaxAsmLen commands of the smaller set
AsmPrograms ==
    {<<c>> : c \in AsmCommands} \cup SeqsUpTo(AsmListCommands, MaxAsmLen)

InitAsm ==
    /\ json_data = <<>>
    /\ internal_repr = [ok |-> FALSE, error |-> "", repr |-> <<>>]
    /\ binary_data = <<>>
    /\ disassembled = <<>>
    /\ memory = new_machine(0).memory
    /\ accumulator = new_machine(0).accumulator
    /\ pc = new_machine(0).pc
    /\ halted = new_machine(0).halted
    /\ result = "init"
    /\ program = <<>>
    /\ steps = 0
    /\ decoded_zero = FALSE
    /\ run_state = "idle"
    /\ was_halted = FALSE

\* internal_repr = assembler.parse_program(json_data)
asm_parse ==
    \E commands \in AsmPrograms :
        /\ json_data' = commands
        /\ internal_repr' = parse_program(commands)
        /\ binary_data' = <<>>
        /\ disassembled' = <<>>
        /\ result' = IF parse_program(commands).ok THEN "parsed" ELSE "parse_error"
        /\ UNCHANGED <<machine, program, steps, decoded_zero, run_state, was_halted>>

\* binary_data = assembler.assemble_to_bytes(internal_repr)
asm_assemble ==
    /\ result = "parsed"
    /\ binary_data' = assemble_to_bytes(internal_repr.repr)
    /\ result' = "assembled"
    /\ UNCHANGED <<json_data, internal_repr, disassembled>>
    /\ UNCHANGED <<machine, program, steps, decoded_zero, run_state, was_halted>>

\* assembler.disassemble_command on each 5-byte record of binary_data
asm_disassemble ==
    /\ result = "assembled"
    /\ disassembled' = [i \in 1..(Len(binary_data) \div RecordSize) |->
                           disassemble_command(
                               SubSeq(binary_data, RecordSize * (i - 1) + 1, RecordSize * i))]
    /\ result' = "disassembled"
    /\ UNCHANGED <<json_data, internal_repr, binary_data>>
    /\ UNCHANGED <<machine, program, steps, decoded_zero, run_state, was_halted>>

NextAsm == asm_parse \/ asm_assemble \/ asm_disassemble

SpecAsm == InitAsm /\ [][NextAsm]_vars

(***************************************************************************)
(* Properties of the interpreter.                                          *)
(***************************************************************************)
\* An execute_step call, made by the caller or by the loop of run()
StepCall == execute_step \/ run_iteration

\* The word execute_step fetches, where the program counter is in the memory
Fetched == Cell(memory, pc)

\* C2: halted is monotonic: once halted is true it stays true under every
\* call but a load_program that succeeds (execute_step, run and a rejected
\* load_program never clear it).
C2_HaltedMonotonic == [][(halted /\ ~halted') => result' = "loaded"]_vars

\* C2 witness: a rejected load_program was called on a halted machine, which
\* is still halted.
C2_Witness == halted /\ result = "load_error"

\* C3 as claimed: the program counter is always a valid index, pc < len(memory).
C3_Original == 0 <= pc /\ pc < MemLen(memory)

\* C3 amended: the program counter is an index into memory or one past the
\* last cell: 0 <= pc <= len(memory).
C3_PcWithinOrAtEnd == 0 <= pc /\ pc <= MemLen(memory)

\* C3 witness: a successful step of the last cell left the program counter
\* at len(memory).
C3_Witness == result = "stepped" /\ MemLen(memory) > 0 /\ pc = MemLen(memory)

\* The case of C4: a running machine whose program counter is past the
\* memory or at a zero word.
C4_Case == ~halted /\ (pc >= MemLen(memory) \/ Fetched = 0)

\* C4 as claimed: such an execute_step sets halted and changes nothing else.
C4_Original ==
    [][(C4_Case /\ StepCall) =>
        (halted' /\ result' = "not_stepped"
         /\ UNCHANGED <<memory, accumulator, pc>>)]_vars

\* C4 amended: such an execute_step reports that no step was taken and
\* changes nothing at all: accumulator, program counter and memory are
\* unchanged and halted stays false.
C4_EndOfProgramIsNotHalt ==
    [][(C4_Case /\ StepCall) =>
        (~halted' /\ result' = "not_stepped"
         /\ UNCHANGED <<memory, accumulator, pc>>)]_vars

\* C4 witness: after some steps, execute_step was refused at a zero word and
\* the machine is not halted.
C4_Witness ==
    /\ result = "not_stepped" /\ ~halted /\ steps > 0
    /\ pc < MemLen(memory) /\ Fetched = 0

\* The case of C5: execute_step decodes LOAD_MEM or STORE_MEM with an operand
\* past the memory, or an operation code that is none of the four.
C5_Case ==
    /\ ~halted /\ pc < MemLen(memory) /\ Fetched > 0
    /\ LET d == decode_command(Fetched)
       IN  \/ d.opcode \in {19, 24} /\ d.operand >= MemLen(memory)
           \/ d.opcode \notin {58, 19, 24, 7}

\* C5: a failing step sets halted, reports not-stepped, and leaves the
\* program counter, the accumulator and every memory cell as they were.
C5_FailingStepOnlyHalts ==
    [][(C5_Case /\ StepCall) =>
        (halted' /\ result' = "not_stepped"
         /\ pc' = pc /\ accumulator' = accumulator /\ memory' = memory)]_vars

\* C5 witness: the machine halted on a STORE_MEM past the memory, with the
\* non-zero accumulator and the advanced program counter of the steps before.
C5_Witness ==
    /\ halted /\ result = "not_stepped" /\ accumulator # 0 /\ pc > 0
    /\ pc < MemLen(memory) /\ Fetched > 0
    /\ decode_command(Fetched).opcode = 24
    /\ decode_command(Fetched).operand >= MemLen(memory)

\* Record i (from 0) of a blob
Record(data, i) == SubSeq(data, RecordSize * i + 1, RecordSize * (i + 1))

\* C6 as claimed: after a successful load_program of K records the
\* accumulator and the program counter are 0, halted is false, cell i holds
\* record i for every i < K (none is dropped, also when K > len(memory)) and
\* every other cell is 0.
C6_Original ==
    (result = "loaded") =>
        LET K == Len(program) \div RecordSize
        IN  /\ accumulator = 0 /\ pc = 0 /\ ~halted
            /\ \A i \in 0..(K - 1) :
                   i < MemLen(memory) /\ Cell(memory, i) = from_bytes(Record(program, i))
            /\ \A i \in 0..(MemLen(memory) - 1) : i >= K => Cell(memory, i) = 0

\* C7: a load_program of a blob whose length is not a multiple of 5 fails
\* and leaves memory, accumulator, program counter and halted as they were.
C7_RejectedLoadChangesNothing ==
    [][/\ result' = "load_error" => UNCHANGED <<memory, accumulator, pc, halted>>
       /\ \A cut \in 1..(RecordSize - 1) :
              (/\ cut <= Len(binary_data)
               /\ load_program(SubSeq(binary_data, 1, Len(binary_data) - cut)))
              => (result' = "load_error" /\ UNCHANGED <<memory, accumulator, pc, halted>>)
      ]_vars

\* C7 witness: a load was rejected on a machine that had run and halted, and
\* its memory, accumulator and program counter still show the run.
C7_Witness ==
    /\ result = "load_error" /\ halted /\ pc > 0 /\ accumulator # 0
    /\ \E i \in 1..MemLen(memory) : memory[i] # 0

\* The number of records of the loaded program
LoadedRecords == Len(program) \div RecordSize

\* A record is a valid instruction: parse_program accepts the command it
\* disassembles to, and that command assembles to the record.
ValidRecord(rec) ==
    LET d == disassemble_command(rec)
        cmd == Cmd(d.opcode, d.operand)
    IN  /\ d.opcode \in DOMAIN OPCODES
        /\ parse_error(cmd) = ""
        /\ assemble_command(parse_command(cmd)) = rec

\* The case of C8: run() has returned on a machine of N cells loaded with K
\* valid instructions, 1 <= K < N.
C8_Case ==
    /\ run_state = "returned"
    /\ LoadedRecords >= 1 /\ LoadedRecords < MemLen(memory)
    /\ \A i \in 0..(LoadedRecords - 1) : ValidRecord(Record(program, i))

\* C8 as claimed: if no step failed, exactly K steps succeeded, the program
\* counter is K, and no zero word was decoded.
C8_Original ==
    C8_Case => (~decoded_zero /\ (~halted => (steps = LoadedRecords /\ pc = LoadedRecords)))

\* The program does not store ahead of itself: no STORE_MEM or ABS at index i
\* has an operand a with i < a <= K.
C8_NoStoreAhead ==
    \A i \in 0..(LoadedRecords - 1) :
        LET d == disassemble_command(Record(program, i))
        IN  d.opcode_num \in {24, 7} => ~(i < d.operand /\ d.operand <= LoadedRecords)

\* C8 amended: for a program that does not store ahead of itself, if no
\* step failed, exactly K steps succeeded and the program counter is K; and
\* no zero word is ever decoded.
C8_ZeroCellTermination ==
    C8_Case =>
        /\ ~decoded_zero
        /\ (C8_NoStoreAhead /\ ~halted) => (steps = LoadedRecords /\ pc = LoadedRecords)

\* C8 witness: run() returned after the two instructions of a program that
\* stored past itself, on a machine that is not halted.
C8_Witness ==
    /\ C8_Case /\ C8_NoStoreAhead /\ ~halted
    /\ LoadedRecords = 2 /\ steps = 2 /\ pc = 2
    /\ \E i \in 3..MemLen(memory) : memory[i] # 0

\* The case of C9: the assembled demo_basic program was loaded on a machine
\* of 1024 cells and execute_step has reported no step.
C9_Case ==
    /\ json_data = DemoBasic
    /\ MemLen(memory) = 1024
    /\ program = binary_data
    /\ result = "not_stepped"

\* C9: the end-to-end scenario ends after exactly 5 successful steps with
\* accumulator 42, memory[100] = 42, memory[101] = 15, program counter 5 and
\* halted false.
C9_EndToEnd ==
    C9_Case =>
        /\ steps = 5
        /\ accumulator = 42
        /\ Cell(memory, 100) = 42
        /\ Cell(memory, 101) = 15
        /\ pc = 5
        /\ ~halted

\* C9 witness: the final state of the scenario, reached by run().
C9_Witness == C9_Case /\ run_state = "returned" /\ steps = 5 /\ accumulator = 42

\* C13: the memory length chosen at construction never changes: no call
\* (a load that succeeds, a load that is rejected, a load of more records
\* than cells, a step) changes the number of cells.
C13_MemoryLengthFixed == [][MemLen(memory') = MemLen(memory)]_vars

\* C13 witness: a program of more records than cells was loaded and stepped.
C13_Witness == LoadedRecords > MemLen(memory) /\ result = "stepped"

\* The case of C14: execute_step decodes ABS.
C14_Case ==
    /\ ~halted /\ pc < MemLen(memory) /\ Fetched > 0
    /\ decode_command(Fetched).opcode = 7

\* C14: an ABS step leaves the absolute value of the accumulator in the
\* accumulator whether or not the operand is in the memory; with the operand
\* in the memory it also stores the value there, changes no other cell and
\* advances the program counter by 1; with the operand past the memory it
\* halts and leaves the program counter and the memory unchanged.
C14_AbsStep ==
    [][(C14_Case /\ StepCall) =>
        LET a == decode_command(Fetched).operand
            v == IF accumulator < 0 THEN 0 - accumulator ELSE accumulator
        IN  /\ accumulator' = v /\ accumulator' >= 0
            /\ IF a < MemLen(memory)
               THEN /\ result' = "stepped" /\ ~halted' /\ pc' = pc + 1
                    /\ memory' = [memory EXCEPT ![a + 1] = v]
               ELSE /\ result' = "not_stepped" /\ halted' /\ pc' = pc
                    /\ memory' = memory]_vars

\* C14 witness: after LOAD_CONST -3, an ABS with its operand past the memory
\* halted the machine, and the accumulator is 3.
C14_Witness ==
    /\ halted /\ steps = 1 /\ pc = 1 /\ accumulator = 3
    /\ pc < MemLen(memory) /\ Fetched > 0
    /\ decode_command(Fetched).opcode = 7
    /\ decode_command(Fetched).operand >= MemLen(memory)

\* C16: an execute_step call on a halted machine reports not-stepped and
\* leaves accumulator, program counter, memory and halted as they were.
C16_HaltedMachineStaysPut ==
    [][(halted /\ StepCall) =>
        (result' = "not_stepped" /\ halted'
         /\ UNCHANGED <<memory, accumulator, pc>>)]_vars

\* C16 witness: execute_step was called on a machine that a failed ABS had
\* halted; the absolute value it left in the accumulator is still there.
C16_Witness ==
    /\ was_halted /\ halted /\ result = "not_stepped"
    /\ steps = 1 /\ pc = 1 /\ accumulator = 3

\* C17 as claimed: execute_step is total; in every state reached by loading
\* and stepping, the call reports stepped or not-stepped and never raises an
\* error to its caller.
C17_Original == result # "raised"

\* C18: run() terminates.  An execute_step that reports stepped increases the
\* program counter by exactly 1, no step decreases it, at most len(memory)
\* steps succeed after a load_program, run() leaves its loop on the first
\* call that does not report stepped, and every entered run() leaves it.
C18_RunTerminates ==
    /\ [][StepCall => /\ (result' = "stepped" => pc' = pc + 1)
                      /\ pc' >= pc
                      /\ (result' = "stepped" => steps' <= MemLen(memory))]_vars
    /\ [][(run_iteration /\ result' # "stepped") => run_state' # "running"]_vars
    /\ []((run_state = "running") => <>(run_state # "running"))

\* C18 witness: run() returned after as many successful steps as the memory
\* has cells, the most there can be.
C18_Witness ==
    /\ run_state = "returned" /\ result = "not_stepped"
    /\ steps = MemLen(memory) /\ pc = MemLen(memory) /\ MemLen(memory) > 1

\* The two decoders agree on record i of the loaded blob and on the word
\* load_program stored for it: the same operation code, and the operand of
\* disassemble_command is the operand of decode_command, sign-extended from
\* 17 bits where the operation code is 58 (and only there).
C19_DecodersAgreeAt(i) ==
    LET d == decode_command(Cell(memory, i))
        a == disassemble_command(Record(program, i))
    IN  /\ d.opcode = a.opcode_num
        /\ a.operand = IF d.opcode = 58 /\ BitSet(d.operand, 16)
                       THEN d.operand - Pow2(17)
                       ELSE d.operand

\* C19: the decoders of the assembler and of the interpreter agree.  After a
\* load_program, for every record that got a cell, decode_command on the
\* stored word and disassemble_command on the record's bytes give the same
\* operation code and the same operand before sign extension; and a step
\* that executes the stored word of a record with operation code 58 leaves in
\* the accumulator the operand disassemble_command reports for the record.
C19_DecodersAgree ==
    /\ [](result = "loaded" =>
            \A i \in 0..(LoadedRecords - 1) :
                i < MemLen(memory) => C19_DecodersAgreeAt(i))
    /\ [][(/\ StepCall /\ ~halted
           /\ pc < MemLen(memory) /\ pc < LoadedRecords
           /\ Fetched = from_bytes(Record(program, pc))
           /\ disassemble_command(Record(program, pc)).opcode_num = 58)
          => (/\ result' = "stepped"
              /\ accumulator' = disassemble_command(Record(program, pc)).operand)]_vars

\* C19 witness: the first record of the loaded blob disassembles to
\* LOAD_CONST -3, and the step that executed its word left -3 in the
\* accumulator.
C19_Witness ==
    /\ result = "stepped" /\ steps = 1 /\ pc = 1 /\ accumulator = 0 - 3
    /\ LoadedRecords >= 1
    /\ disassemble_command(Record(program, 0)).opcode = "LOAD_CONST"
    /\ disassemble_command(Record(program, 0)).operand = 0 - 3

(***************************************************************************)
(* Properties of the assembler.                                            *)
(***************************************************************************)
\* C1 as claimed: disassembling the record assembled for an accepted command
\* returns the operation and exactly the operand of the command.
C1_Original ==
    (result = "disassembled") =>
        /\ Len(disassembled) = Len(json_data)
        /\ \A i \in 1..Len(json_data) :
               /\ disassembled[i].opcode = json_data[i].opcode
               /\ Wide(disassembled[i].operand) = json_data[i].operand

\* The ranges of C10, on the operand as hi * 65536 + lo:
\* -65536 <= operand <= 131071 is hi in -1..1, and
\* 0 <= operand <= 0x7FFFFFFF is hi in 0..32767.
C10_InRange(cmd) ==
    /\ cmd.opcode \in {"LOAD_CONST", "LOAD_MEM", "STORE_MEM", "ABS"}
    /\ cmd.is_int
    /\ IF cmd.opcode = "LOAD_CONST"
       THEN cmd.operand.hi \in -1..1
       ELSE cmd.operand.hi \in 0..32767

\* C10: parse_program accepts a list exactly when every command names one of
\* the four operations and has an integer operand in the range of the
\* operation; an accepted negative LOAD_CONST operand is replaced by
\* operand + 131072, every other accepted operand is kept.
C10_ValidationRanges ==
    (result \in {"parsed", "parse_error"}) =>
        /\ (result = "parsed") <=> (\A i \in 1..Len(json_data) : C10_InRange(json_data[i]))
        /\ internal_repr.ok <=> (result = "parsed")
        /\ (result = "parsed") =>
               /\ Len(internal_repr.repr) = Len(json_data)
               /\ \A i \in 1..Len(json_data) :
                      /\ internal_repr.repr[i].opcode = json_data[i].opcode
                      /\ internal_repr.repr[i].operand =
                             IF json_data[i].opcode = "LOAD_CONST" /\ json_data[i].operand.hi < 0
                             THEN json_data[i].operand.hi * 65536 + json_data[i].operand.lo + 131072
                             ELSE json_data[i].operand.hi * 65536 + json_data[i].operand.lo

\* C10 witness: LOAD_CONST -65536 was accepted and folded to 65536.
C10_Witness ==
    /\ result = "parsed"
    /\ json_data = <<Cmd("LOAD_CONST", -65536)>>
    /\ internal_repr.repr[1].operand = 65536

\* The encoding C11 states for an instruction: byte 0 is
\* opcode | (operand & 3) << 6 and bytes 1..4 are operand >> 2, little-endian.
C11_Encoding(ins) ==
    LET q == ins.operand \div 4
    IN  << ins.opcode_num + 64 * (ins.operand % 4),
           q % 256, (q \div 256) % 256, (q \div 65536) % 256, (q \div 16777216) % 256 >>

\* C11: assemble_to_bytes on K normalized instructions returns exactly 5 * K
\* bytes, and bytes [5i, 5i + 5) are the encoding of instruction i, in the
\* order of the input: none is dropped, duplicated or reordered.
C11_RecordsInOrder ==
    (result = "assembled") =>
        /\ Len(binary_data) = 5 * Len(internal_repr.repr)
        /\ \A i \in 0..(Len(internal_repr.repr) - 1) :
               Record(binary_data, i) = C11_Encoding(internal_repr.repr[i + 1])

\* C11 witness: a list of two different instructions, one with the largest
\* address, has been assembled.
C11_Witness ==
    /\ result = "assembled"
    /\ Len(internal_repr.repr) = 2
    /\ internal_repr.repr[1].operand = 2147483647
    /\ internal_repr.repr[2].opcode = "LOAD_CONST"

\* C12: the literal encodings: LOAD_CONST 308 is 3A 4D 00 00 00, LOAD_MEM 705
\* is 53 B0 00 00 00, STORE_MEM 791 is D8 C5 00 00 00 and ABS 870 is
\* 87 D9 00 00 00.
C12_LiteralEncodings ==
    (result = "assembled") =>
        /\ json_data = <<Cmd("LOAD_CONST", 308)>> => binary_data = <<58, 77, 0, 0, 0>>
        /\ json_data = <<Cmd("LOAD_MEM", 705)>> => binary_data = <<83, 176, 0, 0, 0>>
        /\ json_data = <<Cmd("STORE_MEM", 791)>> => binary_data = <<216, 197, 0, 0, 0>>
        /\ json_data = <<Cmd("ABS", 870)>> => binary_data = <<135, 217, 0, 0, 0>>

\* C12 witness: STORE_MEM 791 has been assembled.
C12_Witness ==
    result = "assembled" /\ json_data = <<Cmd("STORE_MEM", 791)>>

\* The records of a blob
Records(data) == {Record(data, i) : i \in 0..(Len(data) \div RecordSize - 1)}

\* C15: the record assembled for an accepted command is never the zero word:
\* read as a little-endian 40-bit integer it is non-zero, that is, one of its
\* bytes is (and where the integer fits the model's integers, from_bytes,
\* which load_program stores, is non-zero).
C15_NoZeroWord ==
    (result \in {"assembled", "disassembled"}) =>
        \A rec \in Records(binary_data) :
            /\ \E j \in 1..RecordSize : rec[j] # 0
            /\ (rec[5] = 0 /\ rec[4] < 128) => from_bytes(rec) # 0

\* C15 witness: ABS 0, the command with the smallest encoding, has been
\* assembled.
C15_Witness ==
    /\ result = "assembled" /\ json_data = <<Cmd("ABS", 0)>>
    /\ Len(binary_data) = RecordSize

====
